---- MODULE Spec2Model ----
(***************************************************************************)
(* Model of the mdbook-multicode preprocessor (src/src/lib.rs).            *)
(*                                                                         *)
(* Text is modelled at character level.  A chapter's source text is a      *)
(* sequence of one-character strings; a line is such a sequence without    *)
(* line terminator.  The output buffer new_content is the sequence of the  *)
(* strings appended to it by push_str / push, in order; Flat gives the     *)
(* string it denotes.                                                      *)
(***************************************************************************)
EXTENDS Integers, Sequences, FiniteSets, TLC

VARIABLES
    ctx,              \* the PreprocessorContext argument of run (its config)
    book,             \* the Book argument of run: a sequence of book items
    result,           \* what run returned: "none" (running), "Ok", "Err"
    pc,               \* position in run: "run", "for_each", "lines", "returned"
    item,             \* index of the book item for_each_mut is at
    lines,            \* chapter.content.lines(): the lines of the chapter
    idx,              \* number of lines the for loop has consumed
    lang_example_no,  \* lib.rs:53
    langs,            \* lib.rs:54
    lang_texts,       \* lib.rs:55
    new_content,      \* lib.rs:56
    parse_state,      \* lib.rs:61
    h_block_open,     \* history: line number of the block-open line of the
                      \* block being parsed (0 before the first block)
    h_sec_open        \* history: language -> line number of the section-open
                      \* line last accepted for it in this chapter

vars == <<ctx, book, result, pc, item, lines, idx, lang_example_no, langs,
          lang_texts, new_content, parse_state, h_block_open, h_sec_open>>

locals == <<lines, idx, lang_example_no, langs, lang_texts, new_content,
            parse_state, h_block_open, h_sec_open>>

-----------------------------------------------------------------------------
(* Bounds of the model *)

\* longest document (in lines) among the documents that follow the block syntax
MaxLines == 8
\* longest document (in lines) among the documents of arbitrary lines
FullLen == 3
\* longest section body (in characters) among the escaping documents
MaxEscLen == 3
\* most items in a book of several items
MaxItems == 2

-----------------------------------------------------------------------------
(* Strings and characters *)

LF == "\n"
CR == "\r"
\* The backquote character.  A TLA+ string cannot hold a backquote, so the
\* model writes the character as ~; no text of the model holds a tilde.
BQ == "~"

RECURSIVE StrFrom(_, _)
StrFrom(cs, i) == IF i > Len(cs) THEN "" ELSE cs[i] \o StrFrom(cs, i + 1)

\* the string a sequence of characters (or of strings) denotes
Str(cs) == StrFrom(cs, 1)

\* the text an output buffer holds
Flat(chunks) == StrFrom(chunks, 1)

\* str::lines(): lines end at "\n" or "\r\n"; the terminator is not part of
\* the line; a last line without terminator is a line; no line follows a
\* final terminator.
RECURSIVE SplitFrom(_, _, _)
SplitFrom(text, i, cur) ==
    IF i > Len(text)
    THEN IF cur = <<>> THEN <<>> ELSE <<cur>>
    ELSE IF text[i] = LF
         THEN <<(IF cur # <<>> /\ cur[Len(cur)] = CR
                 THEN SubSeq(cur, 1, Len(cur) - 1)
                 ELSE cur)>> \o SplitFrom(text, i + 1, <<>>)
         ELSE SplitFrom(text, i + 1, Append(cur, text[i]))

SplitLines(text) == SplitFrom(text, 1, <<>>)

-----------------------------------------------------------------------------
(* Multicode::new: the four anchored regular expressions *)

AlphaNum ==
    { "a", "b", "c", "d", "e", "f", "g", "h", "i", "j", "k", "l", "m",
      "n", "o", "p", "q", "r", "s", "t", "u", "v", "w", "x", "y", "z",
      "A", "B", "C", "D", "E", "F", "G", "H", "I", "J", "K", "L", "M",
      "N", "O", "P", "Q", "R", "S", "T", "U", "V", "W", "X", "Y", "Z",
      "0", "1", "2", "3", "4", "5", "6", "7", "8", "9" }

BlockOpenLine == <<BQ, BQ, BQ, "m", "u", "l", "t", "i", "c", "o", "d", "e">>
BlockCloseLine == <<BQ, BQ, BQ>>
SectionOpenPrefix == <<">", ">", ">", ">", ">", " ">>
SectionCloseLine == <<"<", "<", "<", "<", "<">>

\* ^~~~multicode$  (the fence of three backquotes, then multicode)
multicode_regex(line) == line = BlockOpenLine

\* a plausible slip: the end anchor left out, ^~~~
end_multicode_unanchored(line) ==
    Len(line) >= Len(BlockCloseLine)
    /\ SubSeq(line, 1, Len(BlockCloseLine)) = BlockCloseLine

\* ^~~~$  (the fence of three backquotes)
end_multicode(line) == line = BlockCloseLine

\* a plausible slip: the end anchor left out, ^>>>>> ([a-zA-Z0-9]+)
code_start_unanchored(line) ==
    /\ Len(line) > Len(SectionOpenPrefix)
    /\ SubSeq(line, 1, Len(SectionOpenPrefix)) = SectionOpenPrefix
    /\ line[Len(SectionOpenPrefix) + 1] \in AlphaNum

\* ^>>>>> ([a-zA-Z0-9]+)$ : whether the line matches
code_start(line) ==
    /\ Len(line) > Len(SectionOpenPrefix)
    /\ SubSeq(line, 1, Len(SectionOpenPrefix)) = SectionOpenPrefix
    /\ \A i \in (Len(SectionOpenPrefix) + 1)..Len(line) : line[i] \in AlphaNum

\* captures.get(1).unwrap().as_str().to_owned() of a matching line
lang_name_of(line) == Str(SubSeq(line, Len(SectionOpenPrefix) + 1, Len(line)))

\* ^<<<<<$
code_end(line) == line = SectionCloseLine

-----------------------------------------------------------------------------
(* html_escape *)

\* str::replace(from, to): every occurrence of the character from, left to right
RECURSIVE ReplaceFrom(_, _, _, _)
ReplaceFrom(text, i, from, to) ==
    IF i > Len(text) THEN <<>>
    ELSE (IF text[i] = from THEN to ELSE <<text[i]>>)
         \o ReplaceFrom(text, i + 1, from, to)

Replace(text, from, to) == ReplaceFrom(text, 1, from, to)

AmpEntity == <<"&", "a", "m", "p", ";">>
LtEntity == <<"&", "l", "t", ";">>
GtEntity == <<"&", "g", "t", ";">>
QuotEntity == <<"&", "q", "u", "o", "t", ";">>
AposEntity == <<"&", "#", "3", "9", ";">>

\* a plausible slip: the ampersand replaced last instead of first
html_escape_amp_last(text_to_escape) ==
    Replace(Replace(Replace(Replace(Replace(text_to_escape,
        "<", LtEntity), ">", GtEntity), "\"", QuotEntity), "'", AposEntity),
        "&", AmpEntity)

html_escape(text_to_escape) ==
    Replace(Replace(Replace(Replace(Replace(text_to_escape,
        "&", AmpEntity), "<", LtEntity), ">", GtEntity), "\"", QuotEntity),
        "'", AposEntity)

-----------------------------------------------------------------------------
(* The markup pushed at the close of a block (lib.rs:76-108) *)

\* format!("code-example-tab-{lang_example_no}")
example_class_name(n) == "code-example-tab-" \o ToString(n)

option_tag(cls, lang) ==
    "<option value=\"" \o cls \o "-" \o lang \o "\">" \o lang \o "</option>"

\* langs.iter().map(..).fold(String::new(), ..)
RECURSIVE OptionsFrom(_, _, _)
OptionsFrom(cls, ls, i) ==
    IF i > Len(ls) THEN ""
    ELSE option_tag(cls, ls[i]) \o OptionsFrom(cls, ls, i + 1)

lang_select_options(cls, ls) == OptionsFrom(cls, ls, 1)

\* a plausible slip: langs.last() for langs.first()
first_lang_last(ls) == ls[Len(ls)]

\* langs.first().unwrap()
first_lang(ls) == ls[1]

select_open(cls, first) ==
    "<div><select onchange=\"changeCodeExample('" \o cls
    \o "', event.target.value)\" value=\"" \o first
    \o "\" class=\"code-example\" autocomplete=\"off\">"

select_close == "</select></div>"

panel_open(cls, lang) ==
    "<div id=\"" \o cls \o "-" \o lang \o "\" class=\"" \o cls
    \o "\"><pre><code class=\"language-" \o lang \o "\">"

panel_close == "</code></pre></div>"

activation_script(cls, first) ==
    "<script>(()=>{changeCodeExample(\"" \o cls \o "\", \"" \o cls \o "-"
    \o first \o "\")})()</script>"

\* one pass of the loop of lib.rs:97-104: three pushes
panel_pushes(cls, lang, texts) ==
    <<panel_open(cls, lang), Str(html_escape(texts[lang])), panel_close>>

RECURSIVE PanelsFrom(_, _, _, _)
PanelsFrom(cls, ls, texts, i) ==
    IF i > Len(ls) THEN <<>>
    ELSE panel_pushes(cls, ls[i], texts) \o PanelsFrom(cls, ls, texts, i + 1)

RECURSIVE PanelsDownFrom(_, _, _, _)
PanelsDownFrom(cls, ls, texts, i) ==
    IF i < 1 THEN <<>>
    ELSE panel_pushes(cls, ls[i], texts) \o PanelsDownFrom(cls, ls, texts, i - 1)

\* a plausible slip: the panels pushed in another order than the options
panels_reversed(cls, ls, texts) == PanelsDownFrom(cls, ls, texts, Len(ls))

\* for lang in &langs { .. }
panels(cls, ls, texts) == PanelsFrom(cls, ls, texts, 1)

\* everything lib.rs:77-108 pushes to new_content, push by push
emit_block(n, ls, texts) ==
    LET cls == example_class_name(n)
        first == first_lang(ls)
    IN  <<select_open(cls, first), lang_select_options(cls, ls), select_close, LF>>
        \o panels(cls, ls, texts)
        \o <<activation_script(cls, first)>>

-----------------------------------------------------------------------------
(* Small steps of run *)

\* self.name()
name == "http-api"

\* a plausible slip: the configuration check dropped
blow_up_ignored(c) == FALSE

\* lib.rs:41-42: the preprocessor's table exists and has the key blow-up
blow_up(c) == name \in DOMAIN c /\ "blow-up" \in c[name]

\* a plausible slip: the counter is never advanced
next_example_no_stuck(n) == n

\* lang_example_no += 1
next_example_no(n) == n + 1

\* a plausible slip: entry().or_insert keeps the text of a language it has
map_insert_keep(m, k, v) ==
    [x \in DOMAIN m \cup {k} |-> IF x \in DOMAIN m THEN m[x] ELSE v]

\* a plausible slip: the insert left out
map_insert_none(m, k, v) == m

\* HashMap::insert
map_insert(m, k, v) ==
    [x \in DOMAIN m \cup {k} |-> IF x = k THEN v ELSE m[x]]

\* a plausible slip: the line pushed without its newline
push_line_bare(content, line) == content \o <<Str(line)>>

\* new_content.push_str(line); new_content.push('\n')
push_line(content, line) == content \o <<Str(line), LF>>

\* a plausible slip: the line of a section kept without its newline
append_line_bare(text, line) == text \o line

\* lang_text.push_str(line); lang_text.push('\n')
append_line(text, line) == text \o line \o <<LF>>

Nothing == [tag |-> "Nothing", lang |-> ""]
Multicode == [tag |-> "Multicode", lang |-> ""]
Code(lang) == [tag |-> "Code", lang |-> lang]

Separator == [kind |-> "Separator", content |-> <<>>]
PartTitle == [kind |-> "PartTitle", content |-> <<>>]
Chapter(text) == [kind |-> "Chapter", content |-> text]

\* the script template lib.rs:58 includes; its text is not part of src/
script_template == "<script>/* script_template.html */</script>"

-----------------------------------------------------------------------------
(* The books run is called with *)

RECURSIVE JoinFrom(_, _, _, _)
JoinFrom(ls, i, term, last) ==
    IF i > Len(ls) THEN <<>>
    ELSE ls[i] \o (IF i = Len(ls) THEN last ELSE term)
         \o JoinFrom(ls, i + 1, term, last)

\* the text whose lines are ls, each ended by term and the last one by last
JoinLines(ls, term, last) == JoinFrom(ls, 1, term, last)

RECURSIVE SeqsUpTo(_, _)
SeqsUpTo(S, n) ==
    IF n = 0 THEN { <<>> }
    ELSE LET P == SeqsUpTo(S, n - 1)
         IN  P \cup { Append(p, x) : p \in P, x \in S }

SectionA == SectionOpenPrefix \o <<"a">>
SectionB == SectionOpenPrefix \o <<"b">>
PlainLine == <<"x">>
BodyLine == <<"<", "&">>
BodyLine2 == <<"y">>

\* Documents of arbitrary lines, at most FullLen of them: every line kind in
\* every parse state, with \n or \r\n line ends, the last line ended or not.
FullLines ==
    { BlockOpenLine, BlockCloseLine, SectionA, SectionCloseLine, PlainLine, <<>> }

FullTexts ==
    LET D == SeqsUpTo(FullLines, FullLen)
    IN  { JoinLines(d, <<LF>>, <<LF>>) : d \in D }
        \cup { JoinLines(d, <<LF>>, <<>>) : d \in D }
        \cup { JoinLines(d, <<CR, LF>>, <<CR, LF>>) : d \in D }

\* Documents that follow the block syntax, at most MaxLines lines, cut off
\* anywhere: after a line of a shape, the lines that may follow it.
Follows(shape) ==
    CASE shape = "top" ->
            { <<PlainLine, "top">>, <<BlockOpenLine, "block">> }
      [] shape = "block" ->
            { <<BlockCloseLine, "top">>, <<SectionA, "section">>,
              <<SectionB, "section">> }
      [] shape = "section" ->
            { <<SectionCloseLine, "block">>, <<BodyLine, "section">>,
              <<BodyLine2, "section">> }

RECURSIVE SyntaxDocs(_)
SyntaxDocs(n) ==
    IF n = 0 THEN { [d |-> <<>>, shape |-> "top"] }
    ELSE LET P == SyntaxDocs(n - 1)
         IN  P \cup UNION { { [d |-> Append(p.d, f[1]), shape |-> f[2]] :
                                f \in Follows(p.shape) } : p \in P }

SyntaxTexts == { JoinLines(p.d, <<LF>>, <<LF>>) : p \in SyntaxDocs(MaxLines) }

\* Documents of one block with one section, whose body is any text of at
\* most MaxEscLen characters of EscChars.
EscChars == { "&", "<", ">", "\"", "'", "a", LF }

EscTexts ==
    { JoinLines(<<BlockOpenLine, SectionA>>, <<LF>>, <<LF>>) \o body \o
      JoinLines(<<<<>>, SectionCloseLine, BlockCloseLine>>, <<LF>>, <<LF>>) :
        body \in SeqsUpTo(EscChars, MaxEscLen) }

\* Documents with a line that is a marker but for one character more, at its
\* head or at its tail, read in each parse state and followed by at most one
\* line more.
ExtraChars == { " ", "-" }

NearLines ==
    UNION { { <<c>> \o m, m \o <<c>> } :
              c \in ExtraChars,
              m \in { BlockOpenLine, BlockCloseLine, SectionA, SectionCloseLine } }

NearTexts ==
    { JoinLines(pre \o <<near>> \o post, <<LF>>, <<LF>>) :
        pre \in { <<>>, <<BlockOpenLine>>, <<BlockOpenLine, SectionA>> },
        near \in NearLines,
        post \in { <<>> } \cup { <<l>> : l \in FullLines } }

\* Books of several items, at most MaxItems, over a few short chapters.
ShortTexts ==
    { JoinLines(<<PlainLine>>, <<LF>>, <<LF>>),
      JoinLines(<<BodyLine2, BlockOpenLine, SectionA, BodyLine>>, <<LF>>, <<LF>>),
      JoinLines(<<BlockOpenLine, BlockCloseLine>>, <<LF>>, <<LF>>),
      JoinLines(<<BlockOpenLine, SectionA, BodyLine, SectionCloseLine,
                  BlockCloseLine>>, <<LF>>, <<LF>>) }

ItemBooks ==
    SeqsUpTo({ Separator, PartTitle } \cup { Chapter(t) : t \in ShortTexts }, MaxItems)

ChapterBooks ==
    { <<Chapter(t)>> : t \in FullTexts \cup SyntaxTexts \cup EscTexts \cup NearTexts }

NoTable == [n \in {} |-> {}]
EmptyTable == [n \in {name} |-> {}]
BlowUpTable == [n \in {name} |-> {"blow-up", "command"}]

-----------------------------------------------------------------------------
(* The state machine *)

NoLocals ==
    /\ lines = <<>>
    /\ idx = 0
    /\ lang_example_no = 0
    /\ langs = <<>>
    /\ lang_texts = <<>>
    /\ new_content = <<>>
    /\ parse_state = Nothing
    /\ h_block_open = 0
    /\ h_sec_open = <<>>

Init ==
    /\ \/ book \in ChapterBooks \cup ItemBooks /\ ctx \in { NoTable, BlowUpTable }
       \/ book \in ItemBooks /\ ctx = EmptyTable
    /\ result = "none"
    /\ pc = "run"
    /\ item = 0
    /\ NoLocals

\* lib.rs:41-45: the configuration asks for failure
RunBlowUp ==
    /\ pc = "run"
    /\ blow_up(ctx)
    /\ result' = "Err"
    /\ pc' = "returned"
    /\ UNCHANGED <<ctx, book, item, locals>>

\* lib.rs:41-47: it does not; for_each_mut starts at the first item
RunForEach ==
    /\ pc = "run"
    /\ ~blow_up(ctx)
    /\ pc' = "for_each"
    /\ item' = 1
    /\ UNCHANGED <<ctx, book, result, locals>>

\* lib.rs:49-50: a separator or a part title is left alone
ItemSkip ==
    /\ pc = "for_each"
    /\ item <= Len(book)
    /\ book[item].kind \in { "Separator", "PartTitle" }
    /\ item' = item + 1
    /\ UNCHANGED <<ctx, book, result, pc, locals>>

\* a plausible slip: the counter, the languages and the parse state declared
\* outside for_each_mut, so that a chapter starts with those of the last one
ChapterBegin_stale ==
    /\ pc = "for_each"
    /\ item <= Len(book)
    /\ book[item].kind = "Chapter"
    /\ pc' = "lines"
    /\ lines' = SplitLines(book[item].content)
    /\ idx' = 0
    /\ new_content' = <<script_template, LF>>
    /\ h_block_open' = 0
    /\ UNCHANGED <<ctx, book, result, item, lang_example_no, langs, lang_texts,
                   parse_state, h_sec_open>>

\* lib.rs:51-61: a chapter: the locals, and the template at the head of the output
ChapterBegin ==
    /\ pc = "for_each"
    /\ item <= Len(book)
    /\ book[item].kind = "Chapter"
    /\ pc' = "lines"
    /\ lines' = SplitLines(book[item].content)
    /\ idx' = 0
    /\ lang_example_no' = 0
    /\ langs' = <<>>
    /\ lang_texts' = <<>>
    /\ new_content' = <<script_template, LF>>
    /\ parse_state' = Nothing
    /\ h_block_open' = 0
    /\ h_sec_open' = <<>>
    /\ UNCHANGED <<ctx, book, result, item>>

\* the line the for loop of lib.rs:62 takes next
line == lines[idx + 1]

HasLine == pc = "lines" /\ idx < Len(lines)

\* lib.rs:64-71
LineNothing ==
    /\ HasLine
    /\ parse_state.tag = "Nothing"
    /\ idx' = idx + 1
    /\ IF multicode_regex(line)
       THEN /\ parse_state' = Multicode
            /\ h_block_open' = idx + 1
            /\ UNCHANGED new_content
       ELSE /\ new_content' = push_line(new_content, line)
            /\ UNCHANGED <<parse_state, h_block_open>>
    /\ UNCHANGED <<ctx, book, result, pc, item, lines, lang_example_no, langs,
                   lang_texts, h_sec_open>>

\* lib.rs:72-117
LineMulticode ==
    /\ HasLine
    /\ parse_state.tag = "Multicode"
    /\ idx' = idx + 1
    /\ IF end_multicode(line)
       THEN /\ parse_state' = Nothing
            /\ new_content' =
                   IF langs # <<>>
                   THEN new_content \o emit_block(lang_example_no, langs, lang_texts)
                   ELSE new_content
            /\ lang_example_no' = next_example_no(lang_example_no)
            /\ UNCHANGED <<langs, lang_texts, h_sec_open>>
       ELSE IF code_start(line)
       THEN /\ langs' = Append(langs, lang_name_of(line))
            /\ lang_texts' = map_insert(lang_texts, lang_name_of(line), <<>>)
            /\ parse_state' = Code(lang_name_of(line))
            /\ h_sec_open' = [L \in DOMAIN h_sec_open \cup {lang_name_of(line)} |->
                                 IF L = lang_name_of(line) THEN idx + 1
                                 ELSE h_sec_open[L]]
            /\ UNCHANGED <<new_content, lang_example_no>>
       ELSE UNCHANGED <<parse_state, new_content, lang_example_no, langs,
                        lang_texts, h_sec_open>>
    /\ UNCHANGED <<ctx, book, result, pc, item, lines, h_block_open>>

\* a plausible slip: the line of a section also copied to the output
LineCode_copying ==
    /\ HasLine
    /\ parse_state.tag = "Code"
    /\ idx' = idx + 1
    /\ IF code_end(line)
       THEN /\ parse_state' = Multicode
            /\ UNCHANGED <<lang_texts, new_content>>
       ELSE /\ lang_texts' =
                   [lang_texts EXCEPT ![parse_state.lang] = append_line(@, line)]
            /\ new_content' = push_line(new_content, line)
            /\ UNCHANGED parse_state
    /\ UNCHANGED <<ctx, book, result, pc, item, lines, lang_example_no, langs,
                   h_block_open, h_sec_open>>

\* lib.rs:118-126
LineCode ==
    /\ HasLine
    /\ parse_state.tag = "Code"
    /\ idx' = idx + 1
    /\ IF code_end(line)
       THEN /\ parse_state' = Multicode
            /\ UNCHANGED lang_texts
       ELSE /\ lang_texts' =
                   [lang_texts EXCEPT ![parse_state.lang] = append_line(@, line)]
            /\ UNCHANGED parse_state
    /\ UNCHANGED <<ctx, book, result, pc, item, lines, lang_example_no, langs,
                   new_content, h_block_open, h_sec_open>>

\* lib.rs:128-130: the lines are used up; the chapter gets the new content.
\* The locals go out of scope: the model leaves in them what the chapter
\* ended with, and ChapterBegin gives the next chapter its own.
ChapterEnd ==
    /\ pc = "lines"
    /\ idx = Len(lines)
    /\ book' = [book EXCEPT ![item].content = new_content]
    /\ item' = item + 1
    /\ pc' = "for_each"
    /\ UNCHANGED <<ctx, result, locals>>

\* lib.rs:136
RunOk ==
    /\ pc = "for_each"
    /\ item > Len(book)
    /\ result' = "Ok"
    /\ pc' = "returned"
    /\ UNCHANGED <<ctx, book, item, locals>>

Next ==
    \/ RunBlowUp
    \/ RunForEach
    \/ ItemSkip
    \/ ChapterBegin
    \/ LineNothing
    \/ LineMulticode
    \/ LineCode
    \/ ChapterEnd
    \/ RunOk

Spec == Init /\ [][Next]_vars

-----------------------------------------------------------------------------
(* What the claims speak of *)

\* the step about to be taken reads a block-open line in state Nothing
OpenStep == HasLine /\ parse_state.tag = "Nothing" /\ multicode_regex(line)

\* the step about to be taken reads the block-close line of a block
CloseStep == HasLine /\ parse_state.tag = "Multicode" /\ end_multicode(line)

\* what the step appends to the output
Pushed == SubSeq(new_content', Len(new_content) + 1, Len(new_content'))

\* the section-open lines between the open marker of the current block and
\* the line about to be read
SectionOpensInBlock ==
    { j \in (h_block_open + 1)..idx : code_start(lines[j]) }

DeclaredInBlock == { lang_name_of(lines[j]) : j \in SectionOpensInBlock }

FirstDeclaredInBlock ==
    lang_name_of(lines[CHOOSE j \in SectionOpensInBlock :
                           \A k \in SectionOpensInBlock : j <= k])

GroupId == "code-example-tab-" \o ToString(lang_example_no)

\* position in Pushed of the first of the three pushes of the i-th panel
PanelAt(i) == 4 + 3 * (i - 1) + 1

NoBlockOpenLine == \A j \in 1..Len(lines) : lines[j] # BlockOpenLine

\* the for loop of the chapter has used up the lines; chapter.content is
\* still the original text
LinesDone == pc = "lines" /\ idx = Len(lines)

Original == book[item].content

-----------------------------------------------------------------------------
(* C1 *)

\* C1: every block starts with fresh language state: reading a block-open
\* line in Idle leaves language_order and language_text empty, and the markup
\* emitted at the block's close is for languages declared by section-open
\* lines of that block only.
C1_FreshBlock ==
    [][ /\ OpenStep => (langs' = <<>> /\ lang_texts' = <<>>)
        /\ (CloseStep /\ Pushed # <<>>) =>
               \A i \in 1..Len(langs) : langs[i] \in DeclaredInBlock ]_vars

-----------------------------------------------------------------------------
(* C2 *)

\* C2: a block with no section-open line between its markers adds nothing to
\* the document output, wherever the block stands in the document.
C2_EmptyBlockSilent ==
    [][ (CloseStep /\ SectionOpensInBlock = {}) =>
            Flat(new_content') = Flat(new_content) ]_vars

-----------------------------------------------------------------------------
(* C3 *)

\* C3: language_order holds each identifier at most once, whatever
\* section-open lines were read.
C3_NoDuplicateLanguage ==
    pc = "lines" =>
        \A i, j \in 1..Len(langs) : langs[i] = langs[j] => i = j

-----------------------------------------------------------------------------
(* C4 *)

\* C4 as the specification states it: for a document without block-open line
\* the output is the template, a newline, and the original text unchanged.
C4_OriginalUnchanged ==
    (LinesDone /\ NoBlockOpenLine) =>
        Flat(new_content) = script_template \o LF \o Str(Original)

\* the text with every line end a single \n: \r\n becomes \n, and a last
\* line that has no line end gets one
RECURSIVE LineEndsFrom(_, _)
LineEndsFrom(text, i) ==
    IF i > Len(text) THEN <<>>
    ELSE IF text[i] = CR /\ i < Len(text) /\ text[i + 1] = LF
         THEN LineEndsFrom(text, i + 1)
         ELSE <<text[i]>> \o
              (IF i = Len(text) /\ text[i] # LF THEN <<LF>> ELSE <<>>) \o
              LineEndsFrom(text, i + 1)

WithLineEnds(text) == LineEndsFrom(text, 1)

\* C4, amended: for a document without block-open line the output is the
\* template, a newline, and the original text with every line ended by a
\* single newline; it is the original text unchanged when that text is empty
\* or ends every line, the last one too, with a bare newline.
C4_LinesCopied ==
    (LinesDone /\ NoBlockOpenLine) =>
        /\ Flat(new_content) = script_template \o LF \o Str(WithLineEnds(Original))
        /\ WithLineEnds(Original) = Original =>
               Flat(new_content) = script_template \o LF \o Str(Original)

\* a document without block-open line whose last line has no line end has
\* been copied
C4_Witness ==
    /\ LinesDone /\ NoBlockOpenLine
    /\ Len(lines) = 2
    /\ Original # <<>>
    /\ Original[Len(Original)] # LF

-----------------------------------------------------------------------------
(* C5 *)

\* C5: within a chapter lang_example_no starts at 0 and grows by exactly one
\* at each block close and at no other line, so the k-th block closed is
\* numbered k; the markup of a block carries the group id
\* code-example-tab-k in its selector, its options, its panels and its
\* activation call.
C5_GroupIds ==
    [][ /\ (pc = "for_each" /\ pc' = "lines") => lang_example_no' = 0
        /\ (pc = "lines" /\ pc' = "lines") =>
               lang_example_no' = lang_example_no + (IF CloseStep THEN 1 ELSE 0)
        /\ (CloseStep /\ langs # <<>>) =>
               /\ Pushed[1] = select_open(GroupId, langs[1])
               /\ Pushed[2] = lang_select_options(GroupId, langs)
               /\ \A i \in 1..Len(langs) :
                      Pushed[PanelAt(i)] = panel_open(GroupId, langs[i])
               /\ Pushed[Len(Pushed)] = activation_script(GroupId, langs[1]) ]_vars

\* two blocks that declare the same language have been closed, and the
\* output holds the activation calls of groups 0 and 1
C5_Witness ==
    /\ pc = "lines"
    /\ lang_example_no = 2
    /\ lines = <<BlockOpenLine, SectionA, SectionCloseLine, BlockCloseLine,
                 BlockOpenLine, SectionA, SectionCloseLine, BlockCloseLine>>
    /\ \E i, j \in 1..Len(new_content) :
           /\ i < j
           /\ new_content[i] =
                  "<script>(()=>{changeCodeExample(\"code-example-tab-0\", \"code-example-tab-0-a\")})()</script>"
           /\ new_content[j] =
                  "<script>(()=>{changeCodeExample(\"code-example-tab-1\", \"code-example-tab-1-a\")})()</script>"

-----------------------------------------------------------------------------
(* C6 *)

\* C6: the activation call emitted for a block pre-selects the panel of the
\* first language declared in that block, the one of the first section-open
\* line after the block's open marker.
C6_FirstOfBlockSelected ==
    [][ (CloseStep /\ Pushed # <<>> /\ SectionOpensInBlock # {}) =>
            Pushed[Len(Pushed)] =
                activation_script(GroupId, FirstDeclaredInBlock) ]_vars

-----------------------------------------------------------------------------
(* C7 *)

\* the line that ends the section opened at line j
SectionEnd(j) ==
    CHOOSE e \in (j + 1)..idx :
        /\ code_end(lines[e])
        /\ \A k \in (j + 1)..(e - 1) : ~code_end(lines[k])

\* the lines of the section last opened for a language, each with its newline
LastSectionText(lang) ==
    JoinLines(SubSeq(lines, h_sec_open[lang] + 1,
                     SectionEnd(h_sec_open[lang]) - 1), <<LF>>, <<LF>>)

\* C7: at a block's close the panel of each language holds the lines of the
\* section opened last for that language, and nothing of an earlier section
\* of the same language.
C7_LastSectionOnly ==
    [][ (CloseStep /\ langs # <<>>) =>
            \A i \in 1..Len(langs) :
                Pushed[PanelAt(i) + 1] = Str(html_escape(LastSectionText(langs[i]))) ]_vars

\* a block that declared a twice, with different bodies, has been closed
C7_Witness ==
    /\ pc = "lines"
    /\ idx = 8
    /\ lines = <<BlockOpenLine, SectionA, BodyLine, SectionCloseLine,
                 SectionA, BodyLine2, SectionCloseLine, BlockCloseLine>>
    /\ \E i \in 1..Len(new_content) : new_content[i] = "y\n"
    /\ \A i \in 1..Len(new_content) : new_content[i] # "&lt;&amp;\ny\n"

-----------------------------------------------------------------------------
(* C8 *)

RECURSIVE OptionsOf(_, _)
OptionsOf(ls, n) ==
    IF n = 0 THEN ""
    ELSE OptionsOf(ls, n - 1) \o option_tag(GroupId, ls[n])

\* C8: at the close of a block with languages, the markup is, in this
\* order: the selector with one option per entry of langs in their order,
\* one panel per entry of langs in the same order holding the escaped text
\* of that language, and the activation call.
C8_MarkupOrder ==
    [][ (CloseStep /\ langs # <<>>) =>
            /\ Len(Pushed) = 4 + 3 * Len(langs) + 1
            /\ Flat(SubSeq(Pushed, 1, 3)) =
                   select_open(GroupId, langs[1]) \o OptionsOf(langs, Len(langs))
                   \o select_close
            /\ \A i \in 1..Len(langs) :
                   /\ Pushed[PanelAt(i)] = panel_open(GroupId, langs[i])
                   /\ Pushed[PanelAt(i) + 1] = Str(html_escape(lang_texts[langs[i]]))
                   /\ Pushed[PanelAt(i) + 2] = panel_close
            /\ \E i \in 1..Len(langs) :
                   Pushed[Len(Pushed)] = activation_script(GroupId, langs[i]) ]_vars

\* a block that declared a, then b, with bodies that need escaping, has been
\* closed
C8_Witness ==
    /\ pc = "lines"
    /\ idx = 8
    /\ lines = <<BlockOpenLine, SectionA, BodyLine, SectionCloseLine,
                 SectionB, BodyLine2, SectionCloseLine, BlockCloseLine>>
    /\ Len(new_content) = 2 + 4 + 3 * 2 + 1
    /\ new_content[8] = "&lt;&amp;\n"
    /\ new_content[11] = "y\n"

-----------------------------------------------------------------------------
(* C9 *)

\* the entity of a character, or the character itself
Entity(c) ==
    CASE c = "&" -> AmpEntity
      [] c = "<" -> LtEntity
      [] c = ">" -> GtEntity
      [] c = "\"" -> QuotEntity
      [] c = "'" -> AposEntity
      [] OTHER -> <<c>>

RECURSIVE EntitiesFrom(_, _)
EntitiesFrom(text, i) ==
    IF i > Len(text) THEN <<>>
    ELSE Entity(text[i]) \o EntitiesFrom(text, i + 1)

\* C9: html_escape puts the entity in the place of each occurrence of the
\* five characters, once, and leaves every other character, newlines
\* included, as it is and where it is; checked on every text a section
\* accumulates.
C9_OneSubstitution ==
    \A lang \in DOMAIN lang_texts :
        html_escape(lang_texts[lang]) = EntitiesFrom(lang_texts[lang], 1)

\* a section text with an ampersand and a less-than sign has been escaped
\* into a panel
C9_Witness ==
    /\ pc = "lines"
    /\ parse_state = Nothing
    /\ "a" \in DOMAIN lang_texts
    /\ lang_texts["a"] = <<"<", "&", LF, LF>>
    /\ \E i \in 1..Len(new_content) : new_content[i] = "&lt;&amp;\n\n"

-----------------------------------------------------------------------------
(* C10 *)

FlagPresent == name \in DOMAIN ctx /\ "blow-up" \in ctx[name]

\* C10: with the blow-up key in the preprocessor's configuration, run returns
\* an error as its first step, no book item is visited and the book is as
\* it was passed.
C10_BlowUpFailsFirst ==
    /\ [](FlagPresent =>
              /\ pc \in { "run", "returned" }
              /\ item = 0
              /\ pc = "returned" => result = "Err")
    /\ [][ FlagPresent => (result' = "Err" /\ pc' = "returned" /\ book' = book) ]_vars

\* run has failed on a book that has a chapter with a block
C10_Witness ==
    /\ FlagPresent
    /\ result = "Err"
    /\ Len(book) = 1
    /\ book[1].kind = "Chapter"
    /\ SplitLines(book[1].content) =
           <<BlockOpenLine, SectionA, BodyLine, SectionCloseLine, BlockCloseLine>>

-----------------------------------------------------------------------------
(* C11 *)

\* C11: at the close of a block with languages, what is appended to the
\* output is the markup of the block followed by a newline, so the next
\* copied line starts on a line of its own.
C11_NewlineAfterMarkup ==
    [][ (CloseStep /\ langs # <<>>) =>
            Flat(Pushed) =
                Flat(emit_block(lang_example_no, langs, lang_texts)) \o LF ]_vars

-----------------------------------------------------------------------------
(* C12 *)

\* the chapter's lines are used up inside a block or a section
EndsInsideBlock == LinesDone /\ parse_state.tag # "Nothing"

\* C12: a block or section still open at the end of a chapter raises no
\* error and its text is lost: inside a block no line but the block's close
\* adds to the output; when the block left open is the first of the chapter,
\* the output is the template and the lines before its open marker, each
\* with its newline, and nothing more; the chapter gets that output and run
\* goes on to return Ok.
C12_UnterminatedDropped ==
    /\ [](EndsInsideBlock /\ lang_example_no = 0 =>
              Flat(new_content) =
                  script_template \o LF \o
                  Str(JoinLines(SubSeq(lines, 1, h_block_open - 1), <<LF>>, <<LF>>)))
    /\ [](pc = "returned" /\ ~FlagPresent => result = "Ok")
    /\ [][ /\ (HasLine /\ parse_state.tag # "Nothing" /\ ~CloseStep) =>
                  new_content' = new_content
           /\ EndsInsideBlock =>
                  /\ book'[item].content = new_content
                  /\ pc' = "for_each"
                  /\ result' = "none" ]_vars

\* a chapter has ended inside a section that has text, after a copied line
C12_Witness ==
    /\ EndsInsideBlock
    /\ parse_state.tag = "Code"
    /\ h_block_open = 2
    /\ lang_texts[parse_state.lang] # <<>>
    /\ new_content = <<script_template, LF, "x", LF>>

-----------------------------------------------------------------------------
(* C13 *)

\* C13: in a section every line but the exact section-close line, the
\* block-close and block-open lines too, is appended with a newline to the
\* text of the section's language and the state stays; the section-close
\* line leads to Multicode and changes no buffer.
C13_SectionLines ==
    [][ (HasLine /\ parse_state.tag = "Code") =>
            IF line = SectionCloseLine
            THEN /\ parse_state' = Multicode
                 /\ UNCHANGED <<lang_texts, langs, new_content, lang_example_no>>
            ELSE /\ parse_state' = parse_state
                 /\ DOMAIN lang_texts' = DOMAIN lang_texts
                 /\ \A L \in DOMAIN lang_texts :
                        lang_texts'[L] =
                            IF L = parse_state.lang
                            THEN lang_texts[L] \o line \o <<LF>>
                            ELSE lang_texts[L]
                 /\ UNCHANGED <<langs, new_content, lang_example_no>> ]_vars

\* a block-close line has been read inside a section and is part of its text
C13_Witness ==
    /\ pc = "lines"
    /\ parse_state = Code("a")
    /\ idx = 3
    /\ lines[3] = BlockCloseLine
    /\ lang_texts["a"] = BlockCloseLine \o <<LF>>

-----------------------------------------------------------------------------
(* C14 *)

\* a line of the form >>>>> identifier, the identifier of letters and digits
SectionOpenForm(l) ==
    \E n \in 1..Len(l) :
        /\ SubSeq(l, 1, n) = <<">", ">", ">", ">", ">", " ">>
        /\ n < Len(l)
        /\ \A i \in (n + 1)..Len(l) : l[i] \in AlphaNum

\* C14: in a block, outside a section, a line that is neither the block-close
\* line nor a section-open line, a second block-open line and a stray
\* section-close line too, is dropped: the state, the output, langs,
\* lang_texts and lang_example_no stay as they are.
C14_BlockLinesDropped ==
    [][ (HasLine /\ parse_state.tag = "Multicode"
         /\ line # <<BQ, BQ, BQ>> /\ ~SectionOpenForm(line)) =>
            UNCHANGED <<parse_state, new_content, langs, lang_texts,
                        lang_example_no>> ]_vars

\* a second block-open line has been read in a block
C14_Witness ==
    /\ pc = "lines"
    /\ idx = 2
    /\ lines[1] = BlockOpenLine
    /\ lines[2] = BlockOpenLine
    /\ parse_state = Multicode
    /\ new_content = <<script_template, LF>>

-----------------------------------------------------------------------------
(* C15 *)

\* C15: every chapter starts in state Nothing, with lang_example_no 0, no
\* language, no text and the template as its only output, whatever the
\* chapter before it ended with.
C15_FreshChapter ==
    (pc = "lines" /\ idx = 0) =>
        /\ parse_state = Nothing
        /\ lang_example_no = 0
        /\ langs = <<>>
        /\ lang_texts = <<>>
        /\ new_content = <<script_template, LF>>

\* the second chapter of a book starts; the first one, a line y and a block
\* left open in a section, ended in state Code
C15_Witness ==
    /\ pc = "lines"
    /\ idx = 0
    /\ item = 2
    /\ book[1] = Chapter(<<script_template, LF, "y", LF>>)
    /\ lines = <<BlockOpenLine, SectionA, BodyLine, SectionCloseLine,
                 BlockCloseLine>>

-----------------------------------------------------------------------------
(* C16 *)

\* one of the four marker lines
MarkerForm(l) ==
    \/ l = <<BQ, BQ, BQ, "m", "u", "l", "t", "i", "c", "o", "d", "e">>
    \/ l = <<BQ, BQ, BQ>>
    \/ l = <<"<", "<", "<", "<", "<">>
    \/ SectionOpenForm(l)

\* C16: a line that is not exactly a marker, such as a marker with one
\* character more at its head or tail, makes no transition and is content of
\* the state it is read in: copied in Nothing, dropped in Multicode, appended
\* to the language's text in Code.
C16_StrictMarkers ==
    [][ (HasLine /\ ~MarkerForm(line)) =>
            /\ parse_state' = parse_state
            /\ UNCHANGED <<langs, lang_example_no>>
            /\ parse_state.tag = "Nothing" =>
                   /\ Pushed = <<Str(line), LF>>
                   /\ lang_texts' = lang_texts
            /\ parse_state.tag = "Multicode" =>
                   UNCHANGED <<new_content, lang_texts>>
            /\ parse_state.tag = "Code" =>
                   /\ new_content' = new_content
                   /\ lang_texts'[parse_state.lang] =
                          lang_texts[parse_state.lang] \o line \o <<LF>> ]_vars

\* a section-open line with one character more has been dropped in a block
C16_Witness ==
    /\ pc = "lines"
    /\ idx = 2
    /\ lines[1] = BlockOpenLine
    /\ lines[2] = <<">", ">", ">", ">", ">", " ", "a", "-">>
    /\ parse_state = Multicode
    /\ langs = <<>>

-----------------------------------------------------------------------------
(* C17 *)

\* C17: no lookup of lang_texts fails: every entry of langs is a key of
\* lang_texts, and in state Code the language of the state is one.
C17_LookupsSucceed ==
    pc = "lines" =>
        /\ \A i \in 1..Len(langs) : langs[i] \in DOMAIN lang_texts
        /\ parse_state.tag = "Code" => parse_state.lang \in DOMAIN lang_texts

\* both lookups have been made: a line was appended in a section of b, and
\* a block with a and b has been closed
C17_Witness ==
    /\ pc = "lines"
    /\ parse_state = Nothing
    /\ lang_example_no = 1
    /\ langs = <<"a", "b">>
    /\ lang_texts["b"] # <<>>

-----------------------------------------------------------------------------
(* C18 *)

\* the opening tags of the panels the chapter can have pushed so far
PanelOpenTags ==
    { panel_open("code-example-tab-" \o ToString(n), L) :
        n \in 0..lang_example_no, L \in DOMAIN lang_texts }

\* C18: in the output of a chapter no two panels have the same id.
C18_PanelIdsUnique ==
    pc = "lines" =>
        \A i, j \in 1..Len(new_content) :
            (i < j /\ new_content[i] \in PanelOpenTags) =>
                new_content[i] # new_content[j]

====
